---- MODULE Spec2Model ----
(***************************************************************************)
(* Shell quoting (packages/process/src/common/shell-quoting.ts) and the    *)
(* command-line builder for long-lived shells                              *)
(* (packages/debug/src/browser/run-in-terminal.ts).                        *)
(*                                                                         *)
(* A JavaScript string is a sequence of one-character strings.  Every      *)
(* function of the two files is pure; the state machine is one call: the   *)
(* arguments of the call, the value it returns and what it wrote to the    *)
(* console.                                                                *)
(***************************************************************************)
EXTENDS Integers, Sequences, FiniteSets, TLC

\* pc: "call" before the call is made, "done" once it has returned
\* call: the function called and its arguments
\* ret: the value returned
\* console: the diagnostics written with console.warn
\* branch: the branch of prepareCommandLine's if-else chain that was taken
VARIABLES pc, call, ret, console, branch

vars == <<pc, call, ret, console, branch>>

(***************************************************************************)
(* Bounds.                                                                 *)
(***************************************************************************)
\* longest argument handed to a quoting function directly
MaxLen == 3
\* most tokens in one createShellCommandLine call, most args of a command
MaxArgs == 2
\* most entries of an environment patch
MaxEnv == 2

(***************************************************************************)
(* Characters.                                                             *)
(***************************************************************************)
SQ == "'"
DQ == "\""
BS == "\\"
\* the backtick, which a TLA+ string cannot hold
BT == "<backtick>"
SP == " "
NL == "\n"
PCT == "%"
CARET == "^"

\* the characters the inputs are made of
Chars == {"a", SP, NL, SQ, DQ, BT, BS, "$", "|", "?", PCT}

\* JavaScript's \s among the characters in use
Whitespace == {SP, NL, "\t", "\r"}

\* what the regular expression's dot does not match
LineTerminators == {NL, "\r"}

Strings(A, n) == UNION {[1..k -> A] : k \in 0..n}

(***************************************************************************)
(* String.prototype.replace for the shapes of pattern the source uses.     *)
(***************************************************************************)
RECURSIVE Flatten(_)
Flatten(ss) == IF ss = <<>> THEN <<>> ELSE Head(ss) \o Flatten(Tail(ss))

\* Array.prototype.join
RECURSIVE Join(_, _)
Join(ss, sep) ==
    IF ss = <<>> THEN <<>>
    ELSE IF Len(ss) = 1 THEN Head(ss)
    ELSE Head(ss) \o sep \o Join(Tail(ss), sep)

\* s.replace(/[set]/g, pre + '$&' + post)
RECURSIVE ReplaceChars(_, _, _, _)
ReplaceChars(s, set, pre, post) ==
    IF s = <<>> THEN <<>>
    ELSE (IF Head(s) \in set THEN pre \o <<Head(s)>> \o post ELSE <<Head(s)>>)
         \o ReplaceChars(Tail(s), set, pre, post)

\* length of the longest prefix of s made of characters of set
RECURSIVE RunLength(_, _)
RunLength(s, set) ==
    IF s = <<>> \/ Head(s) \notin set THEN 0 ELSE 1 + RunLength(Tail(s), set)

\* s.replace(/[set]+/g, pre + '$&' + post)
RECURSIVE ReplaceRuns(_, _, _, _)
ReplaceRuns(s, set, pre, post) ==
    IF s = <<>> THEN <<>>
    ELSE LET n == RunLength(s, set) IN
         IF n = 0 THEN <<Head(s)>> \o ReplaceRuns(Tail(s), set, pre, post)
         ELSE pre \o SubSeq(s, 1, n) \o post
              \o ReplaceRuns(SubSeq(s, n + 1, Len(s)), set, pre, post)

\* s.replace(/ab/g, repl) for the two characters a, b
RECURSIVE ReplacePair(_, _, _, _)
ReplacePair(s, a, b, repl) ==
    IF s = <<>> THEN <<>>
    ELSE IF Len(s) >= 2 /\ s[1] = a /\ s[2] = b
         THEN repl \o ReplacePair(SubSeq(s, 3, Len(s)), a, b, repl)
         ELSE <<Head(s)>> \o ReplacePair(Tail(s), a, b, repl)

\* s.replace(/c$/g, repl)
ReplaceTrailing(s, c, repl) ==
    IF s # <<>> /\ s[Len(s)] = c THEN SubSeq(s, 1, Len(s) - 1) \o repl ELSE s

\* s.replace(/\r?\n/, '^$&'): no g flag, the leftmost match only
ReplaceFirstLineBreak(s) ==
    LET nls == {i \in 1..Len(s) : s[i] = NL} IN
    IF nls = {} THEN s
    ELSE LET i == CHOOSE i \in nls : \A j \in nls : i <= j
             m == IF i > 1 /\ s[i - 1] = "\r" THEN i - 1 ELSE i
         IN SubSeq(s, 1, m - 1) \o <<CARET>> \o SubSeq(s, m, Len(s))

(***************************************************************************)
(* BashQuotingFunctions                                                    *)
(***************************************************************************)
BashMeta == Whitespace \cup {BS, "|", "(", ")", "{", "}", "<", ">", "$", "&", ";", DQ, SQ}

BashQuotingFunctions_escape(arg) == ReplaceChars(arg, BashMeta, <<BS>>, <<>>)

\* a faulty variant: a backslash before each single quote, which Bash does
\* not honour inside single quotes
BashStrongBackslashQuote(arg) ==
    <<SQ>> \o ReplaceChars(arg, {SQ}, <<BS>>, <<>>) \o <<SQ>>

BashQuotingFunctions_strong(arg) ==
    <<SQ>> \o ReplaceRuns(arg, {SQ}, <<SQ, DQ>>, <<DQ, SQ>>) \o <<SQ>>

BashQuotingFunctions_weak(arg) ==
    <<DQ>>
    \o ReplaceTrailing(
         ReplaceChars(ReplacePair(arg, BS, DQ, <<BS, BS, DQ>>), {DQ}, <<BS>>, <<>>),
         BS, <<BS, BS>>)
    \o <<DQ>>

(***************************************************************************)
(* CmdQuotingFunctions                                                     *)
(***************************************************************************)
CmdMeta == {PCT, "&", BS, "<", ">", CARET, "|", DQ}

\* a faulty variant: every whitespace character quoted by itself
CmdEscapeEachWhitespace(arg) ==
    ReplaceChars(ReplaceChars(arg, CmdMeta, <<CARET>>, <<>>), Whitespace, <<DQ>>, <<DQ>>)

CmdQuotingFunctions_escape(arg) ==
    ReplaceRuns(ReplaceChars(arg, CmdMeta, <<CARET>>, <<>>), Whitespace, <<DQ>>, <<DQ>>)

\* the replacement string '\\' is one backslash
CmdQuotingFunctions_weak(arg) ==
    ReplaceFirstLineBreak(
        <<DQ>>
        \o ReplaceTrailing(ReplaceChars(arg, {DQ}, <<BS>>, <<>>), BS, <<BS>>)
        \o <<DQ>>)

\* the call f.call(this, arg) of the function named f, defined below
RECURSIVE Apply(_, _, _)

\* a faulty variant: the percent sign doubled instead of quoted
CmdStrongDoublePercent(this, arg) ==
    ReplaceChars(Apply(this.weak, this, arg), {PCT}, <<PCT>>, <<>>)

\* what a call leaves when it throws "this.weak is not a function"
TypeError == <<"TypeError">>

\* this.weak(arg).replace(/%/g, '"%"'): the weak of the receiver, and a
\* TypeError for a receiver that has none
CmdQuotingFunctions_strong(this, arg) ==
    IF this.weak = "undefined" THEN TypeError
    ELSE ReplaceChars(Apply(this.weak, this, arg), {PCT}, <<DQ>>, <<DQ>>)

(***************************************************************************)
(* PowershellQuotingFunctions                                              *)
(***************************************************************************)
PowershellMeta == {BT, "|", "{", "}", "(", ")", "<", ">", ";", DQ, SQ, SP}

PowershellQuotingFunctions_escape(arg) == ReplaceChars(arg, PowershellMeta, <<BT>>, <<>>)

\* a faulty variant: a backtick before each single quote instead of doubling it
PowershellStrongBacktickQuote(arg) ==
    <<SQ>> \o ReplaceChars(arg, {SQ}, <<BT>>, <<>>) \o <<SQ>>

PowershellQuotingFunctions_strong(arg) ==
    <<SQ>> \o ReplaceChars(arg, {SQ}, <<SQ>>, <<>>) \o <<SQ>>

\* a faulty variant: weak delimits with single quotes
PowershellWeakSingleQuoted(arg) ==
    <<SQ>>
    \o ReplaceTrailing(
         ReplaceChars(ReplacePair(arg, BT, DQ, <<BT, BT, DQ>>), {DQ}, <<BT>>, <<>>),
         BT, <<BT, BT>>)
    \o <<SQ>>

PowershellQuotingFunctions_weak(arg) ==
    <<DQ>>
    \o ReplaceTrailing(
         ReplaceChars(ReplacePair(arg, BT, DQ, <<BT, BT, DQ>>), {DQ}, <<BT>>, <<>>),
         BT, <<BT, BT>>)
    \o <<DQ>>

(***************************************************************************)
(* The nine functions as values: a ShellQuotingFunctions record holds, per *)
(* mode, the name of a function or "undefined".                            *)
(***************************************************************************)
ShellQuoting == {"escape", "strong", "weak"}

BashQuotingFunctions ==
    [escape |-> "Bash.escape", strong |-> "Bash.strong", weak |-> "Bash.weak"]

CmdQuotingFunctions ==
    [escape |-> "Cmd.escape", strong |-> "Cmd.strong", weak |-> "Cmd.weak"]

PowershellQuotingFunctions ==
    [escape |-> "Powershell.escape", strong |-> "Powershell.strong",
     weak |-> "Powershell.weak"]

\* the {} of process-task-runner.ts
NoQuotingFunctions ==
    [escape |-> "undefined", strong |-> "undefined", weak |-> "undefined"]

FunctionNames ==
    {BashQuotingFunctions[m] : m \in ShellQuoting}
    \cup {CmdQuotingFunctions[m] : m \in ShellQuoting}
    \cup {PowershellQuotingFunctions[m] : m \in ShellQuoting}

Apply(f, this, arg) ==
    CASE f = "Bash.escape" -> BashQuotingFunctions_escape(arg)
      [] f = "Bash.strong" -> BashQuotingFunctions_strong(arg)
      [] f = "Bash.weak" -> BashQuotingFunctions_weak(arg)
      [] f = "Cmd.escape" -> CmdQuotingFunctions_escape(arg)
      [] f = "Cmd.strong" -> CmdQuotingFunctions_strong(this, arg)
      [] f = "Cmd.weak" -> CmdQuotingFunctions_weak(arg)
      [] f = "Powershell.escape" -> PowershellQuotingFunctions_escape(arg)
      [] f = "Powershell.strong" -> PowershellQuotingFunctions_strong(arg)
      [] f = "Powershell.weak" -> PowershellQuotingFunctions_weak(arg)

\* the record a function is a member of
Owner(f) ==
    CHOOSE r \in {BashQuotingFunctions, CmdQuotingFunctions, PowershellQuotingFunctions} :
        \E m \in ShellQuoting : r[m] = f

(***************************************************************************)
(* escapeForShell and createShellCommandLine.  A token is a string,        *)
(* [type |-> "string", value |-> s], or a ShellQuotedString,               *)
(* [type |-> "object", value |-> s, quoting |-> m].                        *)
(***************************************************************************)
\* a faulty variant: a missing mode falls back to the strong function
escapeForShellStrongFallback(arg, options) ==
    LET quotationStyle == IF arg.type = "string" THEN "strong" ELSE arg.quoting
        value == arg.value
    IN IF options[quotationStyle] # "undefined"
       THEN Apply(options[quotationStyle], options, value)
       ELSE IF options.strong # "undefined" THEN Apply(options.strong, options, value)
       ELSE value

escapeForShell(arg, options) ==
    LET quotationStyle == IF arg.type = "string" THEN "strong" ELSE arg.quoting
        value == arg.value
    IN IF options[quotationStyle] # "undefined"
       THEN Apply(options[quotationStyle], options, value)
       ELSE value

\* a faulty variant: tokens whose value is empty are filtered out
createShellCommandLineSkipEmpty(args, options) ==
    Join([i \in 1..Len(SelectSeq(args, LAMBDA t : t.value # <<>>)) |->
            escapeForShell(SelectSeq(args, LAMBDA t : t.value # <<>>)[i], options)],
         <<SP>>)

createShellCommandLine(args, options) ==
    Join([i \in 1..Len(args) |-> escapeForShell(args[i], options)], <<SP>>)

(***************************************************************************)
(* prepareCommandLine.  processInfo is Undefined or [executable |-> e];    *)
(* options is [cwd, args] with or without the field env; an environment    *)
(* is the sequence of its <<key, value>> properties in insertion order,    *)
(* the keys distinct, a value a string or Null.                            *)
(***************************************************************************)
Undefined == [undefined |-> TRUE]
Null == <<"null">>
\* undefined where a string is expected
UndefinedString == <<"undefined">>

\* the dot of a pattern
Dot == "<dot>"

Upper == <<"A", "B", "C", "D", "E", "F", "G", "H", "I", "J", "K", "L", "M",
           "N", "O", "P", "Q", "R", "S", "T", "U", "V", "W", "X", "Y", "Z">>
Lower == <<"a", "b", "c", "d", "e", "f", "g", "h", "i", "j", "k", "l", "m",
           "n", "o", "p", "q", "r", "s", "t", "u", "v", "w", "x", "y", "z">>

\* the canonical form of a character under the i flag
Canonicalize(c) ==
    IF \E i \in 1..26 : Upper[i] = c THEN Lower[CHOOSE i \in 1..26 : Upper[i] = c] ELSE c

\* whether the character c matches the pattern element p
MatchesChar(p, c, ignoreCase) ==
    IF p = Dot THEN c \notin LineTerminators
    ELSE IF ignoreCase THEN Canonicalize(p) = Canonicalize(c)
    ELSE p = c

\* /(alternative|...)$/.test(s): some alternative matches a suffix of s
RegExpTest(alternatives, ignoreCase, s) ==
    \E p \in alternatives :
        /\ Len(p) <= Len(s)
        /\ \A i \in 1..Len(p) : MatchesChar(p[i], s[Len(s) - Len(p) + i], ignoreCase)

\* name(.exe)?
WithOptionalExe(names) == names \cup {n \o <<Dot, "e", "x", "e">> : n \in names}

\* a faulty variant: the bash pattern with the i flag
IsBashIgnoreCase(executable) ==
    RegExpTest(WithOptionalExe({<<"b", "a", "s", "h">>}), TRUE, executable)

\* /bash(.exe)?$/
IsBash(executable) ==
    RegExpTest(WithOptionalExe({<<"b", "a", "s", "h">>}), FALSE, executable)

\* /(ps|pwsh|powershell)(.exe)?$/i
IsPowershell(executable) ==
    RegExpTest(WithOptionalExe({<<"p", "s">>, <<"p", "w", "s", "h">>,
                                <<"p", "o", "w", "e", "r", "s", "h", "e", "l", "l">>}),
               TRUE, executable)

\* /cmd(.exe)?$/i
IsCmd(executable) ==
    RegExpTest(WithOptionalExe({<<"c", "m", "d">>}), TRUE, executable)

\* the value of a string of decimal digits
DigitValue(c) == CHOOSE d \in 0..9 : <<"0", "1", "2", "3", "4", "5", "6", "7", "8", "9">>[d + 1] = c

RECURSIVE Numeric(_)
Numeric(k) == IF k = <<>> THEN 0 ELSE 10 * Numeric(SubSeq(k, 1, Len(k) - 1)) + DigitValue(k[Len(k)])

\* a property name that is an array index: Object.keys lists those first
IsArrayIndex(k) ==
    /\ k # <<>>
    /\ \A i \in 1..Len(k) : k[i] \in {"0", "1", "2", "3", "4", "5", "6", "7", "8", "9"}
    /\ (k[1] = "0" => Len(k) = 1)
    \* below 2^32 - 1; nine digits always are
    /\ Len(k) <= 9

\* the i-th smallest index among the array-index keys of object
RECURSIVE SortedIndices(_)
SortedIndices(es) ==
    IF es = <<>> THEN <<>>
    ELSE LET m == CHOOSE i \in 1..Len(es) :
                      \A j \in 1..Len(es) : Numeric(es[i][1]) <= Numeric(es[j][1])
         IN <<es[m]>> \o SortedIndices(SubSeq(es, 1, m - 1) \o SubSeq(es, m + 1, Len(es)))

\* a faulty variant: the pairs as inserted
entriesAsInserted(object) == object

\* the generator entries(object): the pairs in the order of Object.keys
entries(object) ==
    SortedIndices(SelectSeq(object, LAMBDA e : IsArrayIndex(e[1])))
    \o SelectSeq(object, LAMBDA e : ~IsArrayIndex(e[1]))

HasEnv(options) == "env" \in DOMAIN options

\* args.map(value => ({ value, quoting: ShellQuoting.Strong }))
args2(options) ==
    [i \in 1..Len(options.args) |->
        [type |-> "object", value |-> options.args[i], quoting |-> "strong"]]

\* a faulty variant: one backtick before a question mark
quotedKeySingleBacktick(key) ==
    ReplaceChars(ReplaceChars(key, {BT}, <<BT, BT, BT>>, <<>>), {"?"}, <<BT>>, <<>>)

\* key.replace(/`/g, '````').replace(/\?/g, '``?'): the second replacement
\* string is two backticks and the question mark
quotedKey(key) ==
    ReplaceChars(ReplaceChars(key, {BT}, <<BT, BT, BT>>, <<>>), {"?"}, <<BT, BT>>, <<>>)

\* the clauses one branch appends for the entries of env, in order
RECURSIVE ForEachEntry(_, _)
ForEachEntry(shell, es) ==
    IF es = <<>> THEN <<>>
    ELSE LET key == Head(es)[1]
             value == Head(es)[2]
             clause ==
               CASE shell = "bash" ->
                      IF value = Null
                      THEN <<SP, "-", "u", SP>> \o BashQuotingFunctions_strong(key)
                      ELSE <<SP>> \o BashQuotingFunctions_strong(key \o <<"=">> \o value)
                 [] shell = "powershell" ->
                      IF value = Null
                      THEN <<"R", "e", "m", "o", "v", "e", "-", "I", "t", "e", "m", SP,
                             "$", "{", "e", "n", "v", ":">> \o quotedKey(key) \o <<"}", ";", SP>>
                      ELSE <<"$", "{", "e", "n", "v", ":">> \o quotedKey(key) \o <<"}", "=">>
                           \o PowershellQuotingFunctions_strong(value) \o <<";", SP>>
                 [] shell = "cmd" ->
                      IF value = Null
                      THEN CmdQuotingFunctions_strong(CmdQuotingFunctions,
                               <<"s", "e", "t", SP>> \o key
                               \o <<"=", DQ, DQ, SP, "&", "&", SP>>)
                      ELSE <<"s", "e", "t", SP>>
                           \o CmdQuotingFunctions_strong(CmdQuotingFunctions,
                                                         key \o <<"=">> \o value)
                           \o <<SP, "&", "&", SP>>
         IN clause \o ForEachEntry(shell, Tail(es))

BashCd(options) ==
    IF options.cwd # <<>>
    THEN <<"c", "d", SP>> \o BashQuotingFunctions_strong(options.cwd) \o <<SP, "&", "&", SP>>
    ELSE <<>>

\* a faulty variant: the env clause only for a non-empty environment
BashEnvSkipEmpty(options) ==
    IF HasEnv(options) /\ options.env # <<>>
    THEN <<"e", "n", "v">> \o ForEachEntry("bash", entries(options.env)) \o <<SP>>
    ELSE <<>>

\* the env clause
BashEnv(options) ==
    IF HasEnv(options)
    THEN <<"e", "n", "v">> \o ForEachEntry("bash", entries(options.env)) \o <<SP>>
    ELSE <<>>

\* a faulty variant: the arguments joined as they are
BashBranchRawArgs(options) ==
    BashCd(options) \o BashEnv(options) \o Join(options.args, <<SP>>)

BashBranch(options) ==
    BashCd(options) \o BashEnv(options)
    \o createShellCommandLine(args2(options), BashQuotingFunctions)

PowershellCd(options) ==
    IF options.cwd # <<>>
    THEN <<"c", "d", SP>> \o PowershellQuotingFunctions_strong(options.cwd) \o <<";", SP>>
    ELSE <<>>

PowershellEnv(options) ==
    IF HasEnv(options) THEN ForEachEntry("powershell", entries(options.env)) ELSE <<>>

PowershellBranch(options) ==
    PowershellCd(options) \o PowershellEnv(options)
    \o <<"&", SP>> \o createShellCommandLine(args2(options), PowershellQuotingFunctions)

\* a faulty variant: the cd clause whatever cwd is
CmdCdAlways(options) ==
    <<"c", "d", SP>> \o CmdQuotingFunctions_strong(CmdQuotingFunctions, options.cwd)
    \o <<SP, "&", "&", SP>>

CmdCd(options) ==
    IF options.cwd # <<>>
    THEN <<"c", "d", SP>> \o CmdQuotingFunctions_strong(CmdQuotingFunctions, options.cwd)
         \o <<SP, "&", "&", SP>>
    ELSE <<>>

\* the nested cmd and the set clauses
CmdEnv(options) ==
    IF HasEnv(options)
    THEN <<"c", "m", "d", SP, "/", "C", SP, DQ>> \o ForEachEntry("cmd", entries(options.env))
    ELSE <<>>

\* the closing quote of the nested cmd
CmdClose(options) == IF HasEnv(options) THEN <<DQ>> ELSE <<>>

CmdBranch(options) ==
    CmdCd(options) \o CmdEnv(options)
    \o createShellCommandLine(args2(options), CmdQuotingFunctions)
    \o CmdClose(options)

\* processInfo && processInfo.executable
Executable(processInfo) ==
    IF processInfo = Undefined THEN UndefinedString ELSE processInfo.executable

\* if (executable): neither undefined nor the empty string
Truthy(executable) == executable # UndefinedString /\ executable # <<>>

\* the branch of the if-else chain that a call takes
Branch(processInfo) ==
    LET executable == Executable(processInfo) IN
    IF ~Truthy(executable) THEN "unknown"
    ELSE IF IsBash(executable) THEN "bash"
    ELSE IF IsPowershell(executable) THEN "powershell"
    ELSE IF IsCmd(executable) THEN "cmd"
    ELSE "unknown"

\* console.warn(`Unknown shell, could not escape arguments: ${executable || 'undefined'}`)
UnknownShellWarning(processInfo) ==
    [level |-> "warn",
     executable |-> IF Truthy(Executable(processInfo)) THEN Executable(processInfo)
                    ELSE <<"u", "n", "d", "e", "f", "i", "n", "e", "d">>]

\* a faulty variant: an unknown shell is given the Bash quoting
prepareCommandLineQuotedFallback(processInfo, options) ==
    LET b == Branch(processInfo) IN
    CASE b = "powershell" -> [ret |-> PowershellBranch(options), console |-> <<>>]
      [] b = "cmd" -> [ret |-> CmdBranch(options), console |-> <<>>]
      [] b = "bash" -> [ret |-> BashBranch(options), console |-> <<>>]
      [] OTHER -> [ret |-> createShellCommandLine(args2(options), BashQuotingFunctions),
                   console |-> <<UnknownShellWarning(processInfo)>>]

\* the line returned and the diagnostics written
prepareCommandLine(processInfo, options) ==
    LET b == Branch(processInfo) IN
    CASE b = "bash" -> [ret |-> BashBranch(options), console |-> <<>>]
      [] b = "powershell" -> [ret |-> PowershellBranch(options), console |-> <<>>]
      [] b = "cmd" -> [ret |-> CmdBranch(options), console |-> <<>>]
      [] OTHER -> [ret |-> Join(options.args, <<SP>>),
                   console |-> <<UnknownShellWarning(processInfo)>>]

(***************************************************************************)
(* ProcessTaskRunner.getResolvedCommand.  An optional property is          *)
(* [present |-> FALSE] or [present |-> TRUE, value |-> v]; a task          *)
(* configuration is                                                        *)
(*   [type, command, args, options, windows, osx, linux]                   *)
(* with options = [cwd, shell, env], shell = [executable, args] and the    *)
(* three system properties [command, args, options].  isWindows, isOSX,    *)
(* ShellProcess.getShellExecutablePath() and process.env come from the     *)
(* host and are given with the call.                                       *)
(***************************************************************************)
Absent == [present |-> FALSE]
Present(v) == [present |-> TRUE, value |-> v]

\* the {} of taskConfig.options || {}
EmptyOptions == [cwd |-> UndefinedString, shell |-> Absent, env |-> Absent]

\* /(alternative|...)/.test(s) with no anchor: a match that ends anywhere
RegExpTestAnywhere(alternatives, ignoreCase, s) ==
    \E k \in 0..Len(s) : RegExpTest(alternatives, ignoreCase, SubSeq(s, 1, k))

\* { ...a, ...b }: the properties of a, then those of b, a later value
\* replacing an earlier one in its place
RECURSIVE Assign(_, _)
Assign(target, es) ==
    IF es = <<>> THEN target
    ELSE LET e == Head(es)
             at == {i \in 1..Len(target) : target[i][1] = e[1]}
         IN IF at = {} THEN Assign(Append(target, e), Tail(es))
            ELSE Assign([target EXCEPT ![CHOOSE i \in at : TRUE] = e], Tail(es))

Spread(a, b) == Assign(Assign(<<>>, entries(a)), entries(b))

\* the system whose properties take precedence, if the task has them
System(taskConfig, isWindows, isOSX) ==
    IF isWindows /\ taskConfig.windows.present THEN "windows"
    ELSE IF isOSX /\ taskConfig.osx.present THEN "osx"
    ELSE IF ~isWindows /\ ~isOSX /\ taskConfig.linux.present THEN "linux"
    ELSE "undefined"

\* where the options object of the system specific command lives: in the
\* system property, in the task configuration, or nowhere (a fresh {})
OptionsOwner(taskConfig, system) ==
    IF system # "undefined" /\ taskConfig[system].value.options.present THEN system
    ELSE IF taskConfig.options.present THEN "taskConfig"
    ELSE "fresh"

getSystemSpecificCommand(taskConfig, system) ==
    LET command == taskConfig.command
        args == taskConfig.args
        options == IF taskConfig.options.present THEN taskConfig.options.value ELSE EmptyOptions
    IN IF system = "undefined" THEN [command |-> command, args |-> args, options |-> options]
       ELSE LET specific == taskConfig[system].value
            IN [command |-> IF Truthy(specific.command) THEN specific.command ELSE command,
                args |-> IF specific.args.present THEN specific.args ELSE args,
                options |-> IF specific.options.present THEN specific.options.value
                            ELSE options]

\* /bash(.exe)?$/, /cmd(.exe)?$/ and /(ps|pwsh|powershell)(.exe)?/ in turn
ShellSelection(command) ==
    IF RegExpTest(WithOptionalExe({<<"b", "a", "s", "h">>}), FALSE, command)
    THEN [quotingFunctions |-> BashQuotingFunctions,
          execArgs |-> << <<"-", "l">>, <<"-", "c">> >>]
    ELSE IF RegExpTest(WithOptionalExe({<<"c", "m", "d">>}), FALSE, command)
    THEN [quotingFunctions |-> CmdQuotingFunctions, execArgs |-> << <<"/", "c">> >>]
    ELSE IF RegExpTestAnywhere(
                WithOptionalExe({<<"p", "s">>, <<"p", "w", "s", "h">>,
                                 <<"p", "o", "w", "e", "r", "s", "h", "e", "l", "l">>}),
                FALSE, command)
    THEN [quotingFunctions |-> PowershellQuotingFunctions, execArgs |-> << <<"-", "c">> >>]
    ELSE [quotingFunctions |-> NoQuotingFunctions, execArgs |-> <<>>]

StringTokens(ss) == [i \in 1..Len(ss) |-> [type |-> "string", value |-> ss[i]]]

\* the branch for taskConfig.type === 'shell': the command is the shell, the
\* last argument is the thing to run
ShellTask(systemSpecificCommand, shellExecutablePath) ==
    LET shell == systemSpecificCommand.options.shell
        command == IF shell.present /\ Truthy(shell.value.executable)
                   THEN shell.value.executable
                   ELSE shellExecutablePath
        selection == ShellSelection(command)
        args == IF shell.present /\ shell.value.args.present THEN shell.value.args.value
                ELSE selection.execArgs
    IN [command |-> command,
        args |-> IF systemSpecificCommand.args.present
                 THEN Append(args,
                             createShellCommandLine(
                                 StringTokens(<<systemSpecificCommand.command>> \o args),
                                 selection.quotingFunctions))
                 ELSE Append(args, systemSpecificCommand.command)]

\* the other task types: the command with the values of its arguments
ProcessTask(systemSpecificCommand) ==
    [command |-> systemSpecificCommand.command,
     args |-> IF systemSpecificCommand.args.present
              THEN [i \in 1..Len(systemSpecificCommand.args.value) |->
                        systemSpecificCommand.args.value[i].value]
              ELSE <<>>]

\* what getResolvedCommand returns or throws, and the task configuration
\* after it: options.env is assigned in the options object of the task
getResolvedCommand(taskConfig, isWindows, isOSX, shellExecutablePath, processEnv) ==
    LET system == System(taskConfig, isWindows, isOSX)
        systemSpecificCommand == getSystemSpecificCommand(taskConfig, system)
        options == systemSpecificCommand.options
        env == Present(Spread(processEnv, IF options.env.present THEN options.env.value
                                          ELSE <<>>))
        options2 == [options EXCEPT !.env = env]
        owner == OptionsOwner(taskConfig, system)
        taskConfig2 ==
            IF owner = "fresh" THEN taskConfig
            ELSE IF owner = "taskConfig" THEN [taskConfig EXCEPT !.options.value.env = env]
            ELSE [taskConfig EXCEPT ![owner].value.options.value.env = env]
        resolved == IF taskConfig.type = "shell"
                    THEN ShellTask([systemSpecificCommand EXCEPT !.options = options2],
                                   shellExecutablePath)
                    ELSE ProcessTask(systemSpecificCommand)
    IN IF ~Truthy(options.cwd)
       THEN [ret |-> [error |-> "Can't run a task when 'cwd' is not provided by the client"],
             taskConfig |-> taskConfig]
       ELSE IF systemSpecificCommand.command = UndefinedString
       THEN [ret |-> [error |-> "The command field of a task cannot be undefined."],
             taskConfig |-> taskConfig2]
       ELSE [ret |-> [command |-> resolved.command, args |-> resolved.args,
                      options |-> options2],
             taskConfig |-> taskConfig2]

(***************************************************************************)
(* The calls.                                                              *)
(***************************************************************************)
Pending == <<"pending">>

SeqsUpTo(S, n) == UNION {[1..k -> S] : k \in 0..n}

\* lines ended by a line feed or by a carriage return and a line feed
LineChars == {"a", "\r", NL}

\* every character one of the escape functions treats, and one it does not
EscapeChars ==
    {"a", SP, "\t", NL, BS, "|", "(", ")", "{", "}", "<", ">", "$", "&", ";", DQ, SQ, BT,
     PCT, CARET}

\* letters and digits
SafeChars == {"a", "Z", "0", "7"}

QuotingCalls ==
    {[fn |-> f, arg |-> s] : f \in FunctionNames, s \in Strings(Chars, MaxLen)}
    \cup {[fn |-> f, arg |-> s] : f \in {CmdQuotingFunctions.weak, CmdQuotingFunctions.strong},
                                 s \in Strings(LineChars, MaxLen + 1)}
    \cup {[fn |-> f, arg |-> s] : f \in {BashQuotingFunctions.escape, CmdQuotingFunctions.escape,
                                        PowershellQuotingFunctions.escape},
                                 s \in Strings(EscapeChars, MaxLen - 1)}
    \cup {[fn |-> f, arg |-> s] : f \in FunctionNames, s \in Strings(SafeChars, MaxLen)}

\* token values, quoting records and tokens of the assembly calls
TokenValues == {<<>>, <<"a">>, <<SQ>>, <<PCT, NL>>, <<"a", SP, DQ>>}

Tokens ==
    {[type |-> "string", value |-> v] : v \in TokenValues}
    \cup {[type |-> "object", value |-> v, quoting |-> m] : v \in TokenValues, m \in ShellQuoting}

QuotingRecords ==
    {BashQuotingFunctions, CmdQuotingFunctions, PowershellQuotingFunctions, NoQuotingFunctions}

\* the records that hold some of the functions of one dialect: every field
\* of ShellQuotingFunctions is optional
PartialRecords ==
    {[m \in ShellQuoting |-> IF m \in present THEN r[m] ELSE "undefined"] :
        r \in {BashQuotingFunctions, CmdQuotingFunctions, PowershellQuotingFunctions},
        present \in SUBSET ShellQuoting}

EscapeCalls ==
    {[fn |-> "escapeForShell", arg |-> t, options |-> o] :
        t \in Tokens, o \in QuotingRecords \cup PartialRecords}

AssemblyCalls ==
    {[fn |-> "createShellCommandLine", args |-> ts, options |-> o] :
        ts \in SeqsUpTo(Tokens, MaxArgs), o \in QuotingRecords}

\* executables
bash == <<"b", "a", "s", "h">>
cmd == <<"c", "m", "d">>
pwsh == <<"p", "w", "s", "h">>
powershell == <<"p", "o", "w", "e", "r", "s", "h", "e", "l", "l">>
fish == <<"f", "i", "s", "h">>
BinBash == <<"/", "b", "i", "n", "/">> \o bash
CmdExe == cmd \o <<".", "e", "x", "e">>
UsrBinFish == <<"/", "u", "s", "r", "/", "b", "i", "n", "/">> \o fish
BASH_EXE == <<"B", "A", "S", "H", ".", "E", "X", "E">>
CMD_EXE == <<"C", "M", "D", ".", "E", "X", "E">>
PowerShellExe == <<"P", "o", "w", "e", "r", "S", "h", "e", "l", "l", ".", "e", "x", "e">>

ExecutablePrefixes == {<<>>, <<"/", "b", "i", "n", "/">>, <<"C", ":", BS>>, cmd, bash, <<"s">>}

ExecutableNames ==
    {bash, <<"B", "A", "S", "H">>, <<"B", "a", "s", "h">>, <<"p", "s">>, <<"P", "S">>, pwsh,
     <<"P", "W", "S", "H">>, powershell, <<"P", "o", "w", "e", "r", "S", "h", "e", "l", "l">>,
     cmd, <<"C", "M", "D">>, <<"C", "m", "d">>, fish, <<"s", "h">>, <<"z", "s", "h">>, <<>>}

ExecutableSuffixes ==
    {<<>>, <<".", "e", "x", "e">>, <<".", "E", "X", "E">>, <<"x", "e", "x", "e">>,
     <<NL, "e", "x", "e">>, <<"e", "x", "e">>, <<".", "e", "x", "e", ".", "b", "a", "k">>,
     <<"2">>, <<SP>>, bash, cmd}

Executables ==
    {p \o n \o x : p \in ExecutablePrefixes, n \in ExecutableNames, x \in ExecutableSuffixes}
    \cup {UsrBinFish, BASH_EXE, CMD_EXE, PowerShellExe}

\* one executable per branch
Shells == {BinBash, pwsh, CmdExe, UsrBinFish}

\* environments of at most n properties
Environments(keys, values, n) ==
    {e \in SeqsUpTo(keys \X (values \cup {Null}), n) :
        \A i, j \in 1..Len(e) : i # j => e[i][1] # e[j][1]}

\* options.env is env when envs is {env}, and is missing when envs is {}
Options(cwd, args, envs) ==
    IF envs = {} THEN [cwd |-> cwd, args |-> args]
    ELSE [cwd |-> cwd, args |-> args, env |-> CHOOSE e \in envs : TRUE]

ProcessInfos(executables) == {[executable |-> e] : e \in executables}

FewCwds == {<<>>, <<"a", SP, SQ>>}
FewArgs == {<<>>, <<<<"a">>>>, <<<<"a">>, <<"$", SP, SQ>>>>}
FewEnvs == {{}, {<<>>}, {<< <<<<"a">>, <<"|", PCT>>>> >>}, {<< <<<<"a">>, Null>> >>}}
Words == Strings(Chars, 1) \cup {<<"a", SP, SQ>>, <<BS, DQ>>}
LongWords == Strings(Chars, 2)
EnvKeys == {<<"a">>, <<"?">>, <<"a", SP, "$">>, <<PCT, BT>>}
EnvValues == {<<>>, <<SP, "|">>, <<SQ, PCT, DQ>>}
IndexKeys == {<<"b">>, <<"2">>, <<"1", "0">>}

\* the call is prepareCommandLine with arguments drawn from the given sets
PrepareCall(processInfos, cwds, argss, envss) ==
    \E p \in processInfos, c \in cwds, a \in argss, e \in envss :
        call = [fn |-> "prepareCommandLine", processInfo |-> p, options |-> Options(c, a, e)]

PrepareCalls ==
    \* every executable, and none
    \/ PrepareCall(ProcessInfos(Executables) \cup {Undefined}, FewCwds, FewArgs, {{}, {<<>>}})
    \* every working directory
    \/ PrepareCall(ProcessInfos(Shells), LongWords, FewArgs, FewEnvs)
    \* every list of arguments
    \/ PrepareCall(ProcessInfos(Shells), FewCwds, SeqsUpTo(Words, MaxArgs),
                   {{}, {<< <<<<"a">>, Null>> >>}})
    \* every environment
    \/ PrepareCall(ProcessInfos(Shells), FewCwds, FewArgs,
                   {{e} : e \in Environments(EnvKeys, EnvValues, MaxEnv)})
    \/ PrepareCall(ProcessInfos(Shells), FewCwds, FewArgs,
                   {{e} : e \in Environments(LongWords, {<<"a">>}, 1)})
    \/ PrepareCall(ProcessInfos(Shells), FewCwds, FewArgs,
                   {{e} : e \in Environments({<<"a">>}, LongWords, 1)})
    \* names that are array indices
    \/ PrepareCall(ProcessInfos(Shells), FewCwds, FewArgs,
                   {{e} : e \in Environments(IndexKeys, {<<"a">>}, MaxEnv)})

\* task configurations and hosts
TaskCommands == {UndefinedString, <<"l", "s">>, <<"a", SP, SQ>>}

TaskTokens ==
    {[type |-> "string", value |-> <<"-", "a">>],
     [type |-> "string", value |-> <<"b", SP, SQ>>],
     [type |-> "object", value |-> <<"c", PCT>>, quoting |-> "escape"]}

TaskArgs == {Absent} \cup {Present(a) : a \in SeqsUpTo(TaskTokens, MaxArgs)}

psql == <<"p", "s", "q", "l">>

TaskShells ==
    {Absent}
    \cup {Present([executable |-> e, args |-> a]) :
            e \in {UndefinedString, <<>>, BinBash, CmdExe, CMD_EXE, pwsh, psql, UsrBinFish},
            a \in {Absent, Present(<<>>), Present(<< <<"-", "x">> >>)}}

TaskCwd == <<"/", "w">>

HostEnv == << << <<"P">>, <<"/", "b">> >> >>

TaskEnvs == {Absent, Present(<<>>), Present(<< << <<"a">>, <<"1">> >>, << <<"P">>, <<>> >> >>)}

SomeOptions ==
    {Absent, Present(EmptyOptions), Present([cwd |-> <<>>, shell |-> Absent, env |-> Absent])}
    \cup {Present([cwd |-> TaskCwd, shell |-> sh, env |-> e]) :
            sh \in {Absent, Present([executable |-> CmdExe, args |-> Absent])}, e \in TaskEnvs}

SystemProperties ==
    {Absent}
    \cup {Present([command |-> c, args |-> a, options |-> o]) :
            c \in {UndefinedString, <<"d", "i", "r">>},
            a \in {Absent, Present(<< [type |-> "string", value |-> <<"/", "w">>] >>)},
            o \in {Absent, Present([cwd |-> TaskCwd,
                                    shell |-> Present([executable |-> pwsh, args |-> Absent]),
                                    env |-> Absent])}}

ResolveCall(types, commands, argss, optionss, systems, windowss, shellPaths) ==
    \E t \in types, c \in commands, a \in argss, o \in optionss,
       w \in systems, x \in systems, l \in systems, isWindows \in windowss,
       isOSX \in BOOLEAN, p \in shellPaths :
        /\ ~(isWindows /\ isOSX)
        /\ call = [fn |-> "getResolvedCommand",
                   taskConfig |-> [type |-> t, command |-> c, args |-> a, options |-> o,
                                   windows |-> w, osx |-> x, linux |-> l],
                   isWindows |-> isWindows, isOSX |-> isOSX,
                   shellExecutablePath |-> p, processEnv |-> HostEnv]

ResolveCalls ==
    \* every shell and every list of arguments, no system property
    \/ ResolveCall({"shell", "process"}, TaskCommands, TaskArgs,
                   {Present([cwd |-> TaskCwd, shell |-> sh, env |-> Absent]) : sh \in TaskShells},
                   {Absent}, {FALSE}, {BinBash, CmdExe})
    \* every options object and every system property
    \/ ResolveCall({"shell", "process"}, {UndefinedString, <<"l", "s">>},
                   {Absent, Present(<< [type |-> "string", value |-> <<"-", "a">>] >>)},
                   SomeOptions, SystemProperties, BOOLEAN, {BinBash})

Init ==
    /\ pc = "call"
    /\ \/ call \in QuotingCalls
       \/ call \in EscapeCalls
       \/ call \in AssemblyCalls
       \/ PrepareCalls
       \/ ResolveCalls
    /\ ret = Pending
    /\ console = <<>>
    /\ branch = "none"

\* one of the nine quoting functions, called as a member of its record
QuotingFunction ==
    /\ pc = "call"
    /\ call.fn \in FunctionNames
    /\ ret' = Apply(call.fn, Owner(call.fn), call.arg)
    /\ pc' = "done"
    /\ UNCHANGED <<call, console, branch>>

EscapeForShell ==
    /\ pc = "call"
    /\ call.fn = "escapeForShell"
    /\ ret' = escapeForShell(call.arg, call.options)
    /\ pc' = "done"
    /\ UNCHANGED <<call, console, branch>>

CreateShellCommandLine ==
    /\ pc = "call"
    /\ call.fn = "createShellCommandLine"
    /\ ret' = createShellCommandLine(call.args, call.options)
    /\ pc' = "done"
    /\ UNCHANGED <<call, console, branch>>

PrepareCommandLine ==
    /\ pc = "call"
    /\ call.fn = "prepareCommandLine"
    /\ LET r == prepareCommandLine(call.processInfo, call.options) IN
        /\ ret' = r.ret
        /\ console' = console \o r.console
    /\ branch' = Branch(call.processInfo)
    /\ pc' = "done"
    /\ UNCHANGED call

\* getResolvedCommand of the task runner: what it returns or throws, and the
\* env it assigns in the options of the task configuration
GetResolvedCommand ==
    /\ pc = "call"
    /\ call.fn = "getResolvedCommand"
    /\ LET r == getResolvedCommand(call.taskConfig, call.isWindows, call.isOSX,
                                   call.shellExecutablePath, call.processEnv) IN
        /\ ret' = r.ret
        /\ call' = [call EXCEPT !.taskConfig = r.taskConfig]
    /\ pc' = "done"
    /\ UNCHANGED <<console, branch>>

Next ==
    \/ QuotingFunction
    \/ EscapeForShell
    \/ CreateShellCommandLine
    \/ PrepareCommandLine
    \/ GetResolvedCommand

Spec == Init /\ [][Next]_vars

(***************************************************************************)
(* How the shells read a line: the yardsticks the properties below are     *)
(* measured with.                                                          *)
(***************************************************************************)
\* a character Bash met outside quotes (or, for $ and the backtick, outside
\* single quotes) and acts on instead of taking literally
Op(c) == "op:" \o c

BashBlank == {SP, NL, "\t"}
BashUnquotedSpecial == {"$", BT, "|", "?", "&", ";", "<", ">", "(", ")", "*", "#", "~"}
BashDoubleQuoteSpecial == {"$", BT}
BashDoubleQuoteEscapable == {"$", BT, DQ, BS}

\* Bash word splitting and quote removal over the rest s of a line: mode is
\* "plain", "single" or "double", cur the word being read, inword whether a
\* word has begun, words the words read so far
RECURSIVE BashScan(_, _, _, _, _)
BashScan(s, mode, cur, inword, words) ==
    IF s = <<>> THEN
        [words |-> IF inword THEN Append(words, cur) ELSE words,
         ok |-> mode = "plain"]
    ELSE LET c == Head(s)
             r == Tail(s)
         IN
         CASE mode = "single" ->
                IF c = SQ THEN BashScan(r, "plain", cur, TRUE, words)
                ELSE BashScan(r, "single", Append(cur, c), TRUE, words)
           [] mode = "double" ->
                IF c = DQ THEN BashScan(r, "plain", cur, TRUE, words)
                ELSE IF c = BS /\ r # <<>> /\ Head(r) \in BashDoubleQuoteEscapable
                THEN BashScan(Tail(r), "double", Append(cur, Head(r)), TRUE, words)
                ELSE IF c = BS /\ r # <<>> /\ Head(r) = NL
                THEN BashScan(Tail(r), "double", cur, TRUE, words)
                ELSE IF c \in BashDoubleQuoteSpecial
                THEN BashScan(r, "double", Append(cur, Op(c)), TRUE, words)
                ELSE BashScan(r, "double", Append(cur, c), TRUE, words)
           [] OTHER ->
                IF c \in BashBlank
                THEN BashScan(r, "plain", <<>>, FALSE,
                              IF inword THEN Append(words, cur) ELSE words)
                ELSE IF c = SQ THEN BashScan(r, "single", cur, TRUE, words)
                ELSE IF c = DQ THEN BashScan(r, "double", cur, TRUE, words)
                ELSE IF c = BS /\ r # <<>> /\ Head(r) = NL
                THEN BashScan(Tail(r), "plain", cur, inword, words)
                ELSE IF c = BS /\ r # <<>>
                THEN BashScan(Tail(r), "plain", Append(cur, Head(r)), TRUE, words)
                ELSE IF c \in BashUnquotedSpecial
                THEN BashScan(r, "plain", Append(cur, Op(c)), TRUE, words)
                ELSE BashScan(r, "plain", Append(cur, c), TRUE, words)

\* the words Bash reads from a line; ok is FALSE when a quote is left open
BashRead(line) == BashScan(line, "plain", <<>>, FALSE, <<>>)

\* the line is one concatenation of '...' segments and "..." segments that
\* hold single quotes only
RECURSIVE BashSegments(_, _)
BashSegments(s, mode) ==
    IF s = <<>> THEN mode = "plain"
    ELSE CASE mode = "single" ->
                BashSegments(Tail(s), IF Head(s) = SQ THEN "plain" ELSE "single")
           [] mode = "double" ->
                \/ Head(s) = DQ /\ BashSegments(Tail(s), "plain")
                \/ Head(s) = SQ /\ BashSegments(Tail(s), "double")
           [] OTHER ->
                \/ Head(s) = SQ /\ BashSegments(Tail(s), "single")
                \/ Head(s) = DQ /\ BashSegments(Tail(s), "double")

\* the positions of the double quotes of s that no escape character esc
\* consumes, scanning from position i
RECURSIVE UnescapedQuotes(_, _, _)
UnescapedQuotes(s, esc, i) ==
    IF i > Len(s) THEN {}
    ELSE IF s[i] = esc THEN UnescapedQuotes(s, esc, i + 2)
    ELSE IF s[i] = DQ THEN {i} \cup UnescapedQuotes(s, esc, i + 1)
    ELSE UnescapedQuotes(s, esc, i + 1)

\* the value of a Powershell single-quoted literal: '' inside it is one quote
RECURSIVE PowershellLiteralBody(_, _)
PowershellLiteralBody(s, acc) ==
    IF s = <<>> THEN [value |-> acc, ok |-> FALSE]
    ELSE IF Head(s) # SQ THEN PowershellLiteralBody(Tail(s), Append(acc, Head(s)))
    ELSE IF Len(s) >= 2 /\ s[2] = SQ
    THEN PowershellLiteralBody(SubSeq(s, 3, Len(s)), Append(acc, SQ))
    ELSE [value |-> acc, ok |-> Len(s) = 1]

PowershellReadLiteral(s) ==
    IF s = <<>> \/ Head(s) # SQ THEN [value |-> <<>>, ok |-> FALSE]
    ELSE PowershellLiteralBody(Tail(s), <<>>)

\* s with every character c of set replaced by pre, c, post
EachChar(s, set, pre, post) ==
    Flatten([i \in 1..Len(s) |-> IF s[i] \in set THEN pre \o <<s[i]>> \o post
                                  ELSE <<s[i]>>])

Returned(f) == pc = "done" /\ call.fn = f

(***************************************************************************)
(* C1  Bash strong-quote round trip: BashQuotingFunctions.strong(s) is a   *)
(* concatenation of single-quoted segments and double-quoted segments of   *)
(* single quotes only, and Bash reads it back as the one word s.           *)
(***************************************************************************)
ItsATest == <<"i", "t", SQ, "s", SP, "a", SP, SQ, "t", "e", "s", "t", SQ>>

\* C1: strong(s) is a chain of quoted segments that Bash reads back as the
\* single word s
C1_BashStrongRoundTrip ==
    Returned("Bash.strong") =>
        /\ BashSegments(ret, "plain")
        /\ BashRead(ret) = [words |-> <<call.arg>>, ok |-> TRUE]
        /\ BashRead(BashQuotingFunctions_strong(ItsATest))
              = [words |-> <<ItsATest>>, ok |-> TRUE]

\* a run of two single quotes beside another special character has been quoted
C1_Witness ==
    /\ Returned("Bash.strong")
    /\ \E i \in 1..(Len(call.arg) - 1) : call.arg[i] = SQ /\ call.arg[i + 1] = SQ
    /\ \E i \in 1..Len(call.arg) : call.arg[i] \in {DQ, BS, "$", SP}

(***************************************************************************)
(* C3  Weak quoting yields a well-formed double-quoted literal in Bash and *)
(* Powershell: the only double quotes of the output that the escape        *)
(* character does not consume are its first and its last character.        *)
(***************************************************************************)
\* C3: the only unescaped double quotes of weak(s) are its first and last
\* character, for Bash (escape \) and Powershell (escape backtick)
C3_WeakWellFormed ==
    /\ Returned("Bash.weak") => UnescapedQuotes(ret, BS, 1) = {1, Len(ret)}
    /\ Returned("Powershell.weak") => UnescapedQuotes(ret, BT, 1) = {1, Len(ret)}

(***************************************************************************)
(* C7  Powershell strong quoting: a single quote, s with every single      *)
(* quote doubled and nothing else changed, a single quote; the literal     *)
(* reads back as s.                                                        *)
(***************************************************************************)
\* C7: strong(s) is s between single quotes with each single quote doubled,
\* and reads back as s
C7_PowershellStrong ==
    Returned("Powershell.strong") =>
        /\ ret = <<SQ>> \o EachChar(call.arg, {SQ}, <<SQ>>, <<>>) \o <<SQ>>
        /\ PowershellReadLiteral(ret) = [value |-> call.arg, ok |-> TRUE]

C7_Witness ==
    /\ Returned("Powershell.strong")
    /\ Len(call.arg) >= 3
    /\ call.arg[1] = SQ /\ call.arg[2] = SQ /\ call.arg[3] # SQ

(***************************************************************************)
(* C8  Cmd strong quoting: CmdQuotingFunctions.strong(s) is                *)
(* CmdQuotingFunctions.weak(s) with every percent sign replaced by         *)
(* double-quote, percent, double-quote, so every percent sign of the       *)
(* output stands between two double quotes; strong('100% done') is         *)
(* "100"%" done".                                                          *)
(***************************************************************************)
HundredPercentDone == <<"1", "0", "0", PCT, SP, "d", "o", "n", "e">>

\* C8: strong(s) is weak(s) with each % replaced by "%", so every % stands
\* between two double quotes
C8_CmdStrong ==
    Returned("Cmd.strong") =>
        /\ ret = EachChar(CmdQuotingFunctions_weak(call.arg), {PCT}, <<DQ>>, <<DQ>>)
        /\ \A i \in 1..Len(ret) :
              ret[i] = PCT => i > 1 /\ i < Len(ret) /\ ret[i - 1] = DQ /\ ret[i + 1] = DQ
        /\ CmdQuotingFunctions_strong(CmdQuotingFunctions, HundredPercentDone)
              = <<DQ, "1", "0", "0", DQ, PCT, DQ, SP, "d", "o", "n", "e", DQ>>

C8_Witness ==
    /\ Returned("Cmd.strong")
    /\ Cardinality({i \in 1..Len(call.arg) : call.arg[i] = PCT}) >= 2
    /\ \E i \in 1..Len(call.arg) : call.arg[i] = DQ

(***************************************************************************)
(* C2  No re-splitting in the Bash line: Bash reads the line returned for  *)
(* a bash executable as exactly the words cd, cwd, && (cwd non-empty);     *)
(* env, then k=v for an entry with a value and -u, k for a null entry (env *)
(* given); then the args, one word per argument, nothing split, merged or  *)
(* altered.                                                                *)
(***************************************************************************)
RECURSIVE BashEntryWords(_)
BashEntryWords(es) ==
    IF es = <<>> THEN <<>>
    ELSE (IF Head(es)[2] = Null THEN << <<"-", "u">>, Head(es)[1] >>
          ELSE << Head(es)[1] \o <<"=">> \o Head(es)[2] >>)
         \o BashEntryWords(Tail(es))

BashExpectedWords(options) ==
    (IF options.cwd # <<>> THEN << <<"c", "d">>, options.cwd, <<Op("&"), Op("&")>> >>
     ELSE <<>>)
    \o (IF HasEnv(options) THEN << <<"e", "n", "v">> >> \o BashEntryWords(entries(options.env))
        ELSE <<>>)
    \o options.args

Prepared == Returned("prepareCommandLine")

\* C2: Bash reads the line for a bash executable as exactly the expected
\* words, in order, with no quote left open
C2_BashNoResplitting ==
    Prepared /\ branch = "bash" =>
        BashRead(ret) = [words |-> BashExpectedWords(call.options), ok |-> TRUE]

C2_Witness ==
    /\ Prepared /\ branch = "bash"
    /\ SP \in {call.options.cwd[i] : i \in 1..Len(call.options.cwd)}
    /\ HasEnv(call.options)
    /\ \E i, j \in 1..Len(call.options.env) :
          /\ call.options.env[i][2] = Null
          /\ call.options.env[j][2] # Null
          /\ SP \in {call.options.env[j][2][n] : n \in 1..Len(call.options.env[j][2])}
    /\ \E i \in 1..Len(call.options.args) :
          {SP, SQ} \subseteq {call.options.args[i][n] : n \in 1..Len(call.options.args[i])}

(***************************************************************************)
(* C4  Unknown-dialect fallback: with processInfo undefined, an empty      *)
(* executable or one that matches none of the three patterns,              *)
(* prepareCommandLine returns args.join(' ') whatever cwd and env are and  *)
(* raises exactly one warning; a call that recognises a dialect raises     *)
(* none.                                                                   *)
(***************************************************************************)
Fold(s) == [i \in 1..Len(s) |-> Canonicalize(s[i])]

EndsWith(s, suffix) ==
    Len(suffix) <= Len(s) /\ SubSeq(s, Len(s) - Len(suffix) + 1, Len(s)) = suffix

\* s ends with name, or with name, one character that ends no line, exe
EndsWithNameExe(s, name) ==
    \/ EndsWith(s, name)
    \/ /\ EndsWith(s, <<"e", "x", "e">>)
       /\ Len(s) >= Len(name) + 4
       /\ s[Len(s) - 3] \notin {NL, "\r"}
       /\ EndsWith(SubSeq(s, 1, Len(s) - 4), name)

PatternBash(s) == EndsWithNameExe(s, <<"b", "a", "s", "h">>)
PatternPowershell(s) ==
    \E n \in {<<"p", "s">>, <<"p", "w", "s", "h">>,
              <<"p", "o", "w", "e", "r", "s", "h", "e", "l", "l">>} : EndsWithNameExe(Fold(s), n)
PatternCmd(s) == EndsWithNameExe(Fold(s), <<"c", "m", "d">>)

NoDialect(processInfo) ==
    \/ processInfo = Undefined
    \/ processInfo.executable = <<>>
    \/ /\ ~PatternBash(processInfo.executable)
       /\ ~PatternPowershell(processInfo.executable)
       /\ ~PatternCmd(processInfo.executable)

RECURSIVE SpaceSeparated(_)
SpaceSeparated(ws) ==
    IF ws = <<>> THEN <<>>
    ELSE IF Len(ws) = 1 THEN ws[1]
    ELSE SpaceSeparated(SubSeq(ws, 1, Len(ws) - 1)) \o <<SP>> \o ws[Len(ws)]

\* C4: no dialect recognised: args.join(' ') and exactly one warning; a
\* dialect recognised: no diagnostic
C4_UnknownFallback ==
    Prepared =>
        IF NoDialect(call.processInfo)
        THEN /\ ret = SpaceSeparated(call.options.args)
             /\ Len(console) = 1
             /\ console[1].level = "warn"
        ELSE console = <<>>

C4_Witness ==
    /\ Prepared
    /\ call.processInfo = [executable |-> UsrBinFish]
    /\ call.options.cwd # <<>>
    /\ HasEnv(call.options) /\ call.options.env # <<>>
    /\ Len(call.options.args) = 2
    /\ Len(console) = 1

(***************************************************************************)
(* C5  Dialect detection is a function of the executable string alone:     *)
(* Bash when it matches bash(.exe)?$ case-sensitively, otherwise           *)
(* Powershell when it matches (ps|pwsh|powershell)(.exe)?$                 *)
(* case-insensitively, otherwise Cmd when it matches cmd(.exe)?$           *)
(* case-insensitively, otherwise Unknown; BASH.EXE is not Bash, CMD.EXE is *)
(* Cmd and PowerShell.exe is Powershell.                                   *)
(***************************************************************************)
Dialect(s) ==
    IF PatternBash(s) THEN "bash"
    ELSE IF PatternPowershell(s) THEN "powershell"
    ELSE IF PatternCmd(s) THEN "cmd"
    ELSE "unknown"

\* C5: the branch taken is the dialect the three patterns give the
\* executable string, tried in the order Bash, Powershell, Cmd
C5_DialectDetection ==
    Prepared /\ call.processInfo # Undefined =>
        /\ branch = Dialect(call.processInfo.executable)
        /\ call.processInfo.executable = BASH_EXE => branch = "unknown"
        /\ call.processInfo.executable = CMD_EXE => branch = "cmd"
        /\ call.processInfo.executable = PowerShellExe => branch = "powershell"

C5_Witness ==
    /\ Prepared
    /\ call.processInfo = [executable |-> BASH_EXE]
    /\ branch = "unknown"

(***************************************************************************)
(* C6  Line assembly: createShellCommandLine returns the quoted forms of   *)
(* the tokens joined by exactly one space, in input order, one per token;  *)
(* a plain string is quoted with the Strong mode, a ShellQuotedString with *)
(* its own; an empty sequence yields the empty string.                     *)
(***************************************************************************)
\* value quoted by the function the record holds for the mode, if it holds one
QuotedForm(token, options) ==
    LET mode == IF token.type = "string" THEN "strong" ELSE token.quoting
    IN IF options[mode] = "undefined" THEN token.value
       ELSE Apply(options[mode], options, token.value)

\* C6: the result is the quoted forms of the tokens, in order, one per
\* token, separated by single spaces
C6_LineAssembly ==
    Returned("createShellCommandLine") =>
        /\ ret = SpaceSeparated([i \in 1..Len(call.args) |-> QuotedForm(call.args[i], call.options)])
        /\ call.args = <<>> => ret = <<>>

C6_Witness ==
    /\ Returned("createShellCommandLine")
    /\ call.options = CmdQuotingFunctions
    /\ Len(call.args) = 2
    /\ call.args[1].type = "string" /\ call.args[1].value = <<>>
    /\ call.args[2].type = "object" /\ call.args[2].quoting = "escape"
    /\ call.args[2].value # <<>>

(***************************************************************************)
(* C9  Cmd environment clauses: for a cmd executable each entry of the     *)
(* environment patch gives one clause, in insertion order: set, then       *)
(* CmdQuotingFunctions.strong('k=v'), then && for a value; set k="" && for *)
(* null, neither wrapped in double quotes nor with its double quotes       *)
(* backslash-escaped.                                                      *)
(***************************************************************************)
RECURSIVE CmdClauses(_)
CmdClauses(es) ==
    IF es = <<>> THEN <<>>
    ELSE (IF Head(es)[2] = Null
          THEN <<"s", "e", "t", SP>> \o Head(es)[1] \o <<"=", DQ, DQ, SP, "&", "&", SP>>
          ELSE <<"s", "e", "t", SP>>
               \o CmdQuotingFunctions_strong(CmdQuotingFunctions,
                                             Head(es)[1] \o <<"=">> \o Head(es)[2])
               \o <<SP, "&", "&", SP>>)
         \o CmdClauses(Tail(es))

\* C9: the line for a cmd executable and an environment holds, per entry in
\* insertion order, set strong(k=v) && or the unquoted set k="" &&
C9_CmdEnvClauses ==
    Prepared /\ branch = "cmd" /\ HasEnv(call.options) =>
        ret = CmdCd(call.options)
              \o <<"c", "m", "d", SP, "/", "C", SP, DQ>>
              \o CmdClauses(call.options.env)
              \o createShellCommandLine(args2(call.options), CmdQuotingFunctions)
              \o <<DQ>>

(***************************************************************************)
(* C10  Absent and empty environment patches.  As claimed: an empty        *)
(* mapping gives the same line as no env for every known dialect, and for  *)
(* Cmd the cmd /C " prefix and the closing double quote are there exactly  *)
(* when an environment clause is emitted.  As amended: with env absent     *)
(* the line holds no environment clause; with env an empty mapping,        *)
(* Powershell returns the line of env absent, Bash still emits env and one *)
(* space before the invocation, and Cmd emits the cmd /C " prefix and the  *)
(* closing double quote exactly when env is given, empty or not.           *)
(***************************************************************************)
WithoutEnv(options) == [cwd |-> options.cwd, args |-> options.args]

StartsWith(s, prefix) == Len(prefix) <= Len(s) /\ SubSeq(s, 1, Len(prefix)) = prefix

CmdWrapped(options, line) ==
    /\ StartsWith(line, CmdCd(options) \o <<"c", "m", "d", SP, "/", "C", SP, DQ>>)
    /\ Len(line) > Len(CmdCd(options)) + 8
    /\ line[Len(line)] = DQ

\* C10 as claimed: an empty environment gives the line of an absent one, and
\* Cmd nests the line in cmd /C "..." exactly when a clause is emitted
C10_AbsentEmptyEquivalent ==
    Prepared /\ branch \in {"bash", "powershell", "cmd"} =>
        /\ HasEnv(call.options) /\ call.options.env = <<>> =>
              ret = prepareCommandLine(call.processInfo, WithoutEnv(call.options)).ret
        /\ branch = "cmd" =>
              (CmdWrapped(call.options, ret)
                  <=> HasEnv(call.options) /\ call.options.env # <<>>)

\* C10 as amended: no clause when env is absent; for an empty env the same
\* line for Powershell, env and a space for Bash, and for Cmd the nesting in
\* cmd /C "..." exactly when env is given
C10_AbsentOrEmptyEnv ==
    Prepared =>
        LET o == call.options
            invocation(q) == createShellCommandLine(args2(o), q)
        IN
        /\ branch = "bash" /\ ~HasEnv(o) =>
              ret = BashCd(o) \o invocation(BashQuotingFunctions)
        /\ branch = "bash" /\ HasEnv(o) /\ o.env = <<>> =>
              ret = BashCd(o) \o <<"e", "n", "v", SP>> \o invocation(BashQuotingFunctions)
        /\ branch = "powershell" /\ (HasEnv(o) => o.env = <<>>) =>
              ret = PowershellCd(o) \o <<"&", SP>> \o invocation(PowershellQuotingFunctions)
        /\ branch = "cmd" /\ ~HasEnv(o) =>
              ret = CmdCd(o) \o invocation(CmdQuotingFunctions)
        /\ branch = "cmd" /\ HasEnv(o) /\ o.env = <<>> =>
              ret = CmdCd(o) \o <<"c", "m", "d", SP, "/", "C", SP, DQ>>
                    \o invocation(CmdQuotingFunctions) \o <<DQ>>
        /\ branch = "cmd" => (CmdWrapped(o, ret) <=> HasEnv(o))

C10_Witness ==
    /\ Prepared /\ branch = "cmd"
    /\ HasEnv(call.options) /\ call.options.env = <<>>
    /\ call.options.cwd # <<>>
    /\ Len(call.options.args) = 2
    /\ CmdWrapped(call.options, ret)

(***************************************************************************)
(* C11  Powershell environment statements.  As claimed: one statement per  *)
(* entry in insertion order, ${env:N}= strong(v) ; for a value and         *)
(* Remove-Item ${env:N}; for null, N being the name with every backtick    *)
(* replaced by four backticks and every question mark by one backtick and  *)
(* the question mark.  As amended: the question mark is replaced by two    *)
(* backticks and the question mark, and the entries come in the order of   *)
(* Object.keys: names that are array indices first, in ascending order,    *)
(* then the other names in insertion order.                                *)
(***************************************************************************)
\* a name made of digits only, without a leading zero
IndexName(k) ==
    /\ k # <<>>
    /\ \A i \in 1..Len(k) : k[i] \in {"0", "1", "2", "3", "4", "5", "6", "7", "8", "9"}
    /\ (Len(k) > 1 => k[1] # "0")

\* a < b for two such names
IndexLess(a, b) ==
    \/ Len(a) < Len(b)
    \/ /\ Len(a) = Len(b)
       /\ \E i \in 1..Len(a) :
             /\ SubSeq(a, 1, i - 1) = SubSeq(b, 1, i - 1)
             /\ DigitValue(a[i]) < DigitValue(b[i])

\* the entries of env in the order of Object.keys: index names ascending,
\* then the other names as inserted
ObjectKeysOrder(env) ==
    LET n == Len(env)
        Precedes(i, j) ==
            IF IndexName(env[i][1]) /\ IndexName(env[j][1])
            THEN IndexLess(env[i][1], env[j][1])
            ELSE IF IndexName(env[i][1]) THEN TRUE
            ELSE IF IndexName(env[j][1]) THEN FALSE
            ELSE i < j
        p == CHOOSE q \in [1..n -> 1..n] :
                 \A i, j \in 1..n : i < j => Precedes(q[i], q[j])
    IN [i \in 1..n |-> env[p[i]]]

\* the name with backtick -> four backticks, ? -> n backticks and ?
PowershellName(key, n) ==
    Flatten([i \in 1..Len(key) |->
                IF key[i] = BT THEN <<BT, BT, BT, BT>>
                ELSE IF key[i] = "?" THEN [j \in 1..n |-> BT] \o <<"?">>
                ELSE <<key[i]>>])

RECURSIVE PowershellStatements(_, _)
PowershellStatements(es, n) ==
    IF es = <<>> THEN <<>>
    ELSE (IF Head(es)[2] = Null
          THEN <<"R", "e", "m", "o", "v", "e", "-", "I", "t", "e", "m", SP,
                 "$", "{", "e", "n", "v", ":">> \o PowershellName(Head(es)[1], n)
               \o <<"}", ";", SP>>
          ELSE <<"$", "{", "e", "n", "v", ":">> \o PowershellName(Head(es)[1], n)
               \o <<"}", "=">> \o PowershellQuotingFunctions_strong(Head(es)[2])
               \o <<";", SP>>)
         \o PowershellStatements(Tail(es), n)

PowershellLine(options, statements) ==
    PowershellCd(options) \o statements \o <<"&", SP>>
    \o createShellCommandLine(args2(options), PowershellQuotingFunctions)

\* C11 as claimed: one backtick before a question mark, insertion order
C11_PowershellEnvStatements ==
    Prepared /\ branch = "powershell" /\ HasEnv(call.options) =>
        ret = PowershellLine(call.options, PowershellStatements(call.options.env, 1))

\* C11 as amended: two backticks before a question mark, the order of
\* Object.keys
C11_PowershellEnvStatementsTwoBackticks ==
    Prepared /\ branch = "powershell" /\ HasEnv(call.options) =>
        ret = PowershellLine(call.options,
                             PowershellStatements(ObjectKeysOrder(call.options.env), 2))

C11_Witness ==
    /\ Prepared /\ branch = "powershell" /\ HasEnv(call.options)
    /\ \E i, j \in 1..Len(call.options.env) :
          /\ "?" \in {call.options.env[i][1][n] : n \in 1..Len(call.options.env[i][1])}
          /\ BT \in {call.options.env[j][1][n] : n \in 1..Len(call.options.env[j][1])}
          /\ call.options.env[i][2] = Null
          /\ call.options.env[j][2] # Null

(***************************************************************************)
(* C12  Bash env clause.  For a bash executable and a non-empty env patch  *)
(* the line carries exactly one env clause between the cd clause and the   *)
(* invocation: the word env, then per entry " -u " strong(name) for null   *)
(* and " " strong(name=value) otherwise, then one space.  As claimed the   *)
(* entries come in insertion order; as amended, in the order of            *)
(* Object.keys.                                                            *)
(***************************************************************************)
RECURSIVE BashEnvEntries(_)
BashEnvEntries(es) ==
    IF es = <<>> THEN <<>>
    ELSE (IF Head(es)[2] = Null
          THEN <<SP, "-", "u", SP>> \o BashQuotingFunctions_strong(Head(es)[1])
          ELSE <<SP>> \o BashQuotingFunctions_strong(Head(es)[1] \o <<"=">> \o Head(es)[2]))
         \o BashEnvEntries(Tail(es))

BashLine(options, es) ==
    BashCd(options) \o <<"e", "n", "v">> \o BashEnvEntries(es) \o <<SP>>
    \o createShellCommandLine(args2(options), BashQuotingFunctions)

NonEmptyEnv(options) == HasEnv(options) /\ options.env # <<>>

\* C12 as claimed: one env clause with the sets and the unsets of every
\* entry, in insertion order
C12_BashEnvClause ==
    Prepared /\ branch = "bash" /\ NonEmptyEnv(call.options) =>
        ret = BashLine(call.options, call.options.env)

\* C12 as amended: one env clause with the sets and the unsets of every
\* entry, in the order of Object.keys
C12_BashEnvClauseKeysOrder ==
    Prepared /\ branch = "bash" /\ NonEmptyEnv(call.options) =>
        ret = BashLine(call.options, ObjectKeysOrder(call.options.env))

\* a set and an unset in one clause, an index name inserted after another name
C12_Witness ==
    /\ Prepared /\ branch = "bash" /\ NonEmptyEnv(call.options)
    /\ Len(call.options.env) = 2
    /\ ~IndexName(call.options.env[1][1]) /\ IndexName(call.options.env[2][1])
    /\ call.options.env[1][2] = Null /\ call.options.env[2][2] # Null

(***************************************************************************)
(* C13  Statement order and the cd clause.  For the three known dialects   *)
(* the line is the cd clause, then the environment clauses, then the       *)
(* invocation (for Powershell "& " and the assembled arguments; for Cmd    *)
(* with an environment the closing quote of the cmd /C wrapper follows     *)
(* it).  The cd clause is cd strong(cwd) && for Bash and Cmd and           *)
(* cd strong(cwd);  for Powershell, and is absent for an empty cwd.        *)
(***************************************************************************)
CdClause(dialect, cwd) ==
    IF cwd = <<>> THEN <<>>
    ELSE <<"c", "d", SP>>
         \o (CASE dialect = "bash" -> BashQuotingFunctions_strong(cwd) \o <<SP, "&", "&", SP>>
               [] dialect = "cmd" -> CmdQuotingFunctions_strong(CmdQuotingFunctions, cwd)
                                     \o <<SP, "&", "&", SP>>
               [] dialect = "powershell" -> PowershellQuotingFunctions_strong(cwd) \o <<";", SP>>)

\* the arguments as plain tokens, which are quoted strongly
PlainTokens(args) == [i \in 1..Len(args) |-> [type |-> "string", value |-> args[i]]]

Invocation(dialect, options) ==
    LET tokens == PlainTokens(options.args)
    IN CASE dialect = "bash" -> createShellCommandLine(tokens, BashQuotingFunctions)
         [] dialect = "cmd" -> createShellCommandLine(tokens, CmdQuotingFunctions)
                               \o (IF HasEnv(options) THEN <<DQ>> ELSE <<>>)
         [] dialect = "powershell" ->
               <<"&", SP>> \o createShellCommandLine(tokens, PowershellQuotingFunctions)

\* what the environment part of a dialect begins with
EnvOpenings(dialect) ==
    CASE dialect = "bash" -> {<<"e", "n", "v", SP>>}
      [] dialect = "cmd" -> {<<"c", "m", "d", SP, "/", "C", SP, DQ>>}
      [] dialect = "powershell" ->
            {<<"$", "{", "e", "n", "v", ":">>,
             <<"R", "e", "m", "o", "v", "e", "-", "I", "t", "e", "m", SP>>}

\* line = cd clause \o environment part \o invocation
InStatementOrder(dialect, options, line) ==
    LET cd == CdClause(dialect, options.cwd)
        inv == Invocation(dialect, options)
        middle == SubSeq(line, Len(cd) + 1, Len(line) - Len(inv))
    IN /\ Len(line) >= Len(cd) + Len(inv)
       /\ StartsWith(line, cd)
       /\ EndsWith(line, inv)
       /\ ~HasEnv(options) => middle = <<>>
       /\ HasEnv(options) /\ options.env # <<>> =>
              \E o \in EnvOpenings(dialect) : StartsWith(middle, o)

\* C13: the line of a known dialect is the cd clause, the environment
\* clauses and the invocation in this order; the cd clause is as given for a
\* non-empty cwd and absent for an empty one, when the line starts with no cd
C13_StatementOrder ==
    Prepared /\ branch \in {"bash", "cmd", "powershell"} =>
        /\ InStatementOrder(branch, call.options, ret)
        /\ call.options.cwd = <<>> => ~StartsWith(ret, <<"c", "d", SP>>)

C13_Witness ==
    /\ Prepared /\ branch = "powershell"
    /\ call.options.cwd # <<>> /\ call.options.args # <<>>
    /\ NonEmptyEnv(call.options)
    /\ StartsWith(ret, <<"c", "d", SP, SQ>>)

\* the same with no cwd: the line starts with the environment part
C13_WitnessNoCwd ==
    /\ Prepared /\ branch = "cmd"
    /\ call.options.cwd = <<>> /\ call.options.args # <<>>
    /\ NonEmptyEnv(call.options)

(***************************************************************************)
(* C14  Cmd weak quoting and a trailing backslash: for s ending in a       *)
(* backslash, weak(s) carries that backslash doubled, so that the closing  *)
(* double quote follows an even number of backslashes.                     *)
(***************************************************************************)
\* how many times c stands at the end of s
RECURSIVE TrailingRun(_, _)
TrailingRun(s, c) ==
    IF s # <<>> /\ s[Len(s)] = c THEN 1 + TrailingRun(SubSeq(s, 1, Len(s) - 1), c) ELSE 0

\* C14: for s ending in a backslash, Cmd weak(s) ends in the closing quote
\* after one backslash more than s ends in, an even number of them
C14_CmdWeakTrailingBackslash ==
    Returned("Cmd.weak") /\ TrailingRun(call.arg, BS) > 0 =>
        /\ ret[Len(ret)] = DQ
        /\ TrailingRun(SubSeq(ret, 1, Len(ret) - 1), BS) = TrailingRun(call.arg, BS) + 1
        /\ TrailingRun(SubSeq(ret, 1, Len(ret) - 1), BS) % 2 = 0

(***************************************************************************)
(* C15  Cmd weak quoting and line breaks: every line break of s, a line    *)
(* feed or a carriage return and a line feed, stands in weak(s) and in     *)
(* strong(s) right after a caret.                                          *)
(***************************************************************************)
\* where the line break ending at the line feed s[i] begins
LineBreakStart(s, i) == IF i > 1 /\ s[i - 1] = "\r" THEN i - 1 ELSE i

EveryLineBreakCareted(s) ==
    \A i \in 1..Len(s) :
        s[i] = NL => LineBreakStart(s, i) > 1 /\ s[LineBreakStart(s, i) - 1] = CARET

\* C15: in Cmd weak(s) and strong(s) every line break, not the first one
\* only, is preceded by a caret
C15_CmdLineBreaks ==
    Returned("Cmd.weak") \/ Returned("Cmd.strong") =>
        /\ Cardinality({i \in 1..Len(ret) : ret[i] = NL})
           = Cardinality({i \in 1..Len(call.arg) : call.arg[i] = NL})
        /\ EveryLineBreakCareted(ret)

(***************************************************************************)
(* C16  Escape mode.  escape(s) is s with the escape character of the      *)
(* dialect before every metacharacter and nothing else changed: a          *)
(* backslash for Bash, a backtick for Powershell, a caret for Cmd, where   *)
(* in addition every maximal run of whitespace stands between one pair of  *)
(* double quotes that carry no caret.                                      *)
(***************************************************************************)
BlankChars == {SP, "\t", NL, "\r"}
BashEscaped == BlankChars \cup {BS, "|", "(", ")", "{", "}", "<", ">", "$", "&", ";", DQ, SQ}
PowershellEscaped == {SP, BT, "|", "{", "}", "(", ")", "<", ">", ";", DQ, SQ}
CmdEscaped == {PCT, "&", BS, "<", ">", CARET, "|", DQ}

\* s with prefix before every character of set
Prefixed(s, set, prefix) ==
    Flatten([i \in 1..Len(s) |-> IF s[i] \in set THEN <<prefix, s[i]>> ELSE <<s[i]>>])

\* the length of the run of whitespace s begins with
RECURSIVE LeadingBlanks(_)
LeadingBlanks(s) ==
    IF s # <<>> /\ Head(s) \in BlankChars THEN 1 + LeadingBlanks(Tail(s)) ELSE 0

RECURSIVE CmdEscapeExpected(_)
CmdEscapeExpected(s) ==
    IF s = <<>> THEN <<>>
    ELSE IF Head(s) \in BlankChars
         THEN LET n == LeadingBlanks(s)
              IN <<DQ>> \o SubSeq(s, 1, n) \o <<DQ>> \o CmdEscapeExpected(SubSeq(s, n + 1, Len(s)))
    ELSE IF Head(s) \in CmdEscaped THEN <<CARET, Head(s)>> \o CmdEscapeExpected(Tail(s))
    ELSE <<Head(s)>> \o CmdEscapeExpected(Tail(s))

\* C16: escape(s) is s with the escape character before each metacharacter
\* of the dialect; Cmd also wraps each maximal run of whitespace in one pair
\* of plain double quotes
C16_EscapeMode ==
    /\ Returned("Bash.escape") => ret = Prefixed(call.arg, BashEscaped, BS)
    /\ Returned("Powershell.escape") => ret = Prefixed(call.arg, PowershellEscaped, BT)
    /\ Returned("Cmd.escape") => ret = CmdEscapeExpected(call.arg)

\* a run of two whitespace characters and a metacharacter, through Cmd escape
C16_Witness ==
    /\ Returned("Cmd.escape")
    /\ call.arg = <<SP, NL, PCT>>
    /\ ret = <<DQ, SP, NL, DQ, CARET, PCT>>

(***************************************************************************)
(* C17  A missing quoting mode falls back to identity.  For a record with  *)
(* no function for the mode the token asks for, the empty record           *)
(* included, escapeForShell returns the value as it is and throws          *)
(* nothing; with the function present the result is that function called   *)
(* on the value as a member of the record.                                 *)
(***************************************************************************)
RequestedMode(token) == IF token.type = "string" THEN "strong" ELSE token.quoting

\* C17: no function for the requested mode: the value, unchanged, and no
\* throw; a function for it: what that function returns for the value
C17_MissingModeIdentity ==
    Returned("escapeForShell") =>
        LET f == call.options[RequestedMode(call.arg)]
        IN /\ f = "undefined" => ret = call.arg.value /\ ret # TypeError
           /\ f # "undefined" => ret = Apply(f, call.options, call.arg.value)

\* a record with a strong function and no weak one, asked for weak
C17_Witness ==
    /\ Returned("escapeForShell")
    /\ call.options.strong # "undefined" /\ call.options.weak = "undefined"
    /\ call.arg.type = "object" /\ call.arg.quoting = "weak"
    /\ call.arg.value = <<"a", SP, DQ>>
    /\ ret = <<"a", SP, DQ>>

\* the empty record
C17_WitnessEmptyRecord ==
    /\ Returned("escapeForShell")
    /\ call.options = NoQuotingFunctions
    /\ call.arg.type = "string" /\ call.arg.value = <<"a", SP, DQ>>
    /\ ret = <<"a", SP, DQ>>

(***************************************************************************)
(* C18  Safe input.  For s of letters and digits only, the empty string    *)
(* included, escape(s) is s, and strong(s) and weak(s) are s between the   *)
(* delimiters of the dialect and nothing else: single quotes for Bash and  *)
(* Powershell strong, double quotes for Cmd strong and for every weak.     *)
(***************************************************************************)
AsciiLettersAndDigits ==
    {"a", "b", "c", "d", "e", "f", "g", "h", "i", "j", "k", "l", "m", "n", "o", "p", "q",
     "r", "s", "t", "u", "v", "w", "x", "y", "z",
     "A", "B", "C", "D", "E", "F", "G", "H", "I", "J", "K", "L", "M", "N", "O", "P", "Q",
     "R", "S", "T", "U", "V", "W", "X", "Y", "Z",
     "0", "1", "2", "3", "4", "5", "6", "7", "8", "9"}

Safe(s) == \A i \in 1..Len(s) : s[i] \in AsciiLettersAndDigits

\* C18: on letters and digits escape changes nothing, strong and weak add
\* the delimiter pair of the dialect and nothing else
C18_SafeInput ==
    pc = "done" /\ call.fn \in FunctionNames /\ Safe(call.arg) =>
        /\ call.fn \in {"Bash.escape", "Cmd.escape", "Powershell.escape"} => ret = call.arg
        /\ call.fn \in {"Bash.strong", "Powershell.strong"} => ret = <<SQ>> \o call.arg \o <<SQ>>
        /\ call.fn \in {"Cmd.strong", "Bash.weak", "Cmd.weak", "Powershell.weak"} =>
              ret = <<DQ>> \o call.arg \o <<DQ>>

C18_Witness ==
    /\ Returned("Powershell.weak")
    /\ call.arg = <<"Z", "0", "a">>
    /\ ret = <<DQ, "Z", "0", "a", DQ>>

\* the empty string
C18_WitnessEmpty ==
    /\ Returned("Cmd.strong")
    /\ call.arg = <<>>
    /\ ret = <<DQ, DQ>>

(***************************************************************************)
(* C19  Shell tasks keep their arguments.  For a task of type shell with   *)
(* a list of arguments, the last element of the returned args is the       *)
(* command line of the task command followed by every configured           *)
(* argument, each quoted with the functions of the selected dialect, in    *)
(* the configured order; the arguments of the shell itself stand before    *)
(* that element only.                                                      *)
(***************************************************************************)
Resolved == Returned("getResolvedCommand") /\ "error" \notin DOMAIN ret

\* the command and arguments in force on the host of the call
Configured ==
    getSystemSpecificCommand(call.taskConfig,
                             System(call.taskConfig, call.isWindows, call.isOSX))

\* the quoting functions and the arguments that the returned shell takes
Selected == ShellSelection(ret.command)

ShellArgs ==
    LET shell == Configured.options.shell
    IN IF shell.present /\ shell.value.args.present THEN shell.value.args.value
       ELSE Selected.execArgs

\* C19: the last returned argument of a shell task with arguments is the
\* line of the command and all its configured arguments, quoted in order;
\* the arguments of the shell come before it and are not part of it
C19_ShellTaskKeepsArguments ==
    Resolved /\ call.taskConfig.type = "shell" /\ Configured.args.present =>
        /\ ret.args # <<>>
        /\ ret.args[Len(ret.args)]
              = createShellCommandLine(
                    <<[type |-> "string", value |-> Configured.command]>>
                    \o Configured.args.value,
                    Selected.quotingFunctions)
        /\ SubSeq(ret.args, 1, Len(ret.args) - 1) = ShellArgs

====
